---- MODULE Spec2Model ----
(***************************************************************************)
(* A model of tcp-probe (src/ping.js): probe(options, callback) runs       *)
(* `attempts` TCP connection attempts one after another and reports the    *)
(* results to the callback.  Every socket event handler and timer callback *)
(* of ping.js is one action; net.Socket and the timers are the             *)
(* environment, modelled by the events node's net module can deliver.      *)
(*                                                                         *)
(* An optional JavaScript value is a sequence of length 0 (undefined) or 1.*)
(* A Buffer is a sequence of bytes.  Times are ticks of a clock that       *)
(* starts at 0 when the attempt's socket is created (process.hrtime(start)).*)
(***************************************************************************)
EXTENDS Integers, Sequences, FiniteSets, TLC

\* ---------------------------------------------------------------- bounds
MaxAttempts == 2      \* largest options.attempts the caller passes in plain mode
MaxBytes    == 2      \* largest options.maxResponseBytes the caller passes
MaxChunk    == 2      \* largest inbound chunk, in bytes
MaxClock    == 1      \* the clock of an attempt stops counting here
Timeout     == 1      \* options.timeout the caller passes, in ticks
RespTimeout == 2      \* options.responseTimeout, when the caller passes one

\* ------------------------------------------------------- program constants
DefaultAttempts         == 1
DefaultTimeout          == 5000
DefaultMaxResponseBytes == 50000
DefaultPingAttempts     == 10

undefined == <<>>
Some(x)   == <<x>>
IsDef(o)  == o # undefined
Val(o)    == o[1]

Bytes == {1, 2}
Min(a, b) == IF a < b THEN a ELSE b

\* Buffers of at most n bytes
RECURSIVE BuffersUpTo(_)
BuffersUpTo(n) ==
    IF n = 0 THEN {<<>>}
    ELSE LET shorter == BuffersUpTo(n - 1)
         IN  shorter \cup {Append(b, x) : b \in {c \in shorter : Len(c) = n - 1}, x \in Bytes}

Chunks == BuffersUpTo(MaxChunk)

\* Sockets are named by the value of i when connect() created them.
Ids == 0 .. (MaxAttempts - 1)

VARIABLES
    thrown,                 \* probe() threw 'Callback function is required'
    isProbe,                \* line 50
    options,                \* the merged options, line 53
    i,                      \* line 46
    results,                \* line 47
    cb,                     \* the calls made to callback: <<err, report>> records
    s,                      \* s[k]: the net.Socket of connect() number k
    clk,                    \* clk[k]: process.hrtime(start), in ticks
    didPushResults, connectTime, didMatch, didExceedResponseBytes,
    didRequestExit, lastErr, responseBuffer,   \* lines 158-164, per connect()
    responseTimeoutRef,     \* line 166: "none", "armed", "fired", "cleared"
    wrote                   \* wrote[k]: the payloads handed to s.write, in order

vars == <<thrown, isProbe, options, i, results, cb, s, clk, didPushResults,
          connectTime, didMatch, didExceedResponseBytes, didRequestExit,
          lastErr, responseBuffer, responseTimeoutRef, wrote>>

\* The whole mutable state as one record, so that a handler and the functions
\* it calls (probeResultCheck -> check -> connect) compose as functions.
Cur == [i |-> i, results |-> results, cb |-> cb, s |-> s, clk |-> clk,
        didPushResults |-> didPushResults, connectTime |-> connectTime,
        didMatch |-> didMatch, didExceedResponseBytes |-> didExceedResponseBytes,
        didRequestExit |-> didRequestExit, lastErr |-> lastErr,
        responseBuffer |-> responseBuffer,
        responseTimeoutRef |-> responseTimeoutRef, wrote |-> wrote]

\* the step that leaves the program in state S
Becomes(S) ==
    \E T \in {S} :
        /\ i' = T.i /\ results' = T.results /\ cb' = T.cb /\ s' = T.s /\ clk' = T.clk
        /\ didPushResults' = T.didPushResults /\ connectTime' = T.connectTime
        /\ didMatch' = T.didMatch
        /\ didExceedResponseBytes' = T.didExceedResponseBytes
        /\ didRequestExit' = T.didRequestExit /\ lastErr' = T.lastErr
        /\ responseBuffer' = T.responseBuffer
        /\ responseTimeoutRef' = T.responseTimeoutRef /\ wrote' = T.wrote
        /\ UNCHANGED <<thrown, isProbe, options>>

\* statement sequencing: F applied to the state S, S evaluated once
Then(S, F(_)) == CHOOSE R \in {F(T) : T \in {S}} : TRUE


\* ------------------------------------------------------ net.Socket (node)
\* state: "none"  no such socket yet
\*        "connecting", "open"
\*        "errored"    destroyed by a failed write, its 'error' event pending
\*        "destroyed"  handle released, its 'close' event pending
\*        "closed"     'close' was emitted; no event follows
\* ended: end() was called (or the peer's FIN ended it: allowHalfOpen is false)
\* rdEnded: the peer sent FIN, no data follows
\* connected: 'connect' was emitted
\* idle: ticks since the last activity; armed: the idle timer is running
NoSocket == [state |-> "none", connected |-> FALSE, ended |-> FALSE,
             rdEnded |-> FALSE, idle |-> 0, armed |-> FALSE]

\* a socket nobody called setTimeout on
NewSocketNoTimeout ==
    [state |-> "connecting", connected |-> FALSE, ended |-> FALSE,
     rdEnded |-> FALSE, idle |-> 0, armed |-> FALSE]

\* new net.Socket() followed by s.setTimeout(options.timeout, ...)
NewSocket == [state |-> "connecting", connected |-> FALSE, ended |-> FALSE,
              rdEnded |-> FALSE, idle |-> 0, armed |-> options.timeout > 0]

\* the socket once the connection is established
Established(sk) ==
    [sk EXCEPT !.state = "open", !.connected = TRUE, !.idle = 0,
               !.armed = options.timeout > 0]

Live(sk) == sk.state \in {"connecting", "open"}

\* s.write(payload): refused after end() (the stream is destroyed with
\* ERR_STREAM_WRITE_AFTER_END) and ignored on a destroyed socket.
WriteOk(sk) == Live(sk) /\ ~sk.ended

SockWrite(sk) ==
    IF WriteOk(sk) THEN [sk EXCEPT !.idle = 0, !.armed = options.timeout > 0]
    ELSE IF Live(sk) THEN [sk EXCEPT !.state = "errored", !.armed = FALSE]
    ELSE sk

\* s.end(): half-closes; the socket stays open until 'finish'
SockEnd(sk) == IF Live(sk) THEN [sk EXCEPT !.ended = TRUE] ELSE sk

\* s.destroy(): releases the handle and the idle timer at once
SockDestroy(sk) ==
    IF sk.state \in {"connecting", "open", "errored"}
    THEN [sk EXCEPT !.state = "destroyed", !.armed = FALSE]
    ELSE sk

\* S after s[k].write(what)
Write(S, k, what) ==
    [S EXCEPT !.wrote[k] = Append(@, [what |-> what, ok |-> WriteOk(S.s[k])]),
              !.s[k] = SockWrite(@)]

\* -------------------------------------------------------------- probe()
\* line 50
IsProbeOf(given) ==
    \/ IsDef(given.request) \/ IsDef(given.exitRequest)
    \/ (IsDef(given.capture) /\ Val(given.capture))
    \/ IsDef(given.match)
    \/ (IsDef(given.maxResponseBytes) /\ Val(given.maxResponseBytes) # 0)

Default(o, d) == IF IsDef(o) THEN Val(o) ELSE d

\* lines 53-70: the caller's values win over the defaults
MergeDefaults(given) ==
    [attempts         |-> Default(given.attempts, DefaultAttempts),
     timeout          |-> Default(given.timeout, DefaultTimeout),
     responseTimeout  |-> given.responseTimeout,
     request          |-> Default(given.request, <<>>),
     exitRequest      |-> given.exitRequest,
     match            |-> given.match,
     maxResponseBytes |-> Default(given.maxResponseBytes, DefaultMaxResponseBytes),
     capture          |-> Default(given.capture, FALSE)]

\* ------------------------------------------------------------- check()
RECURSIVE Reduce(_, _, _, _)
\* results.reduce(f, init) from position n on
Reduce(f(_, _), acc, rs, n) ==
    IF n > Len(rs) THEN acc ELSE Reduce(f, f(acc, rs[n]), rs, n + 1)

\* a > b and a < b of JavaScript on numbers and undefined
JsGt(a, b) == IsDef(a) /\ IsDef(b) /\ Val(a) > Val(b)
JsLt(a, b) == IsDef(a) /\ IsDef(b) /\ Val(a) < Val(b)

\* a dropped reducer that counts the results with an error
CountDroppedByErr(prev, curr) == IF IsDef(curr.err) THEN prev + 1 ELSE prev

CountDropped(prev, curr) == IF curr.time = undefined THEN prev + 1 ELSE prev
SumTime(prev, curr)      == IF curr.time = undefined THEN prev ELSE prev + Val(curr.time)
MaxTime(prev, curr)      == IF JsGt(prev, curr.time) THEN prev ELSE curr.time
MinTime(prev, curr)      == IF JsLt(prev, curr.time) THEN prev ELSE curr.time
\* conTime is added as a number: an undefined one makes the sum NaN
SumConTime(prev, curr)   ==
    IF curr.time = undefined THEN prev
    ELSE IF prev = undefined \/ curr.conTime = undefined THEN undefined
    ELSE Some(Val(prev) + Val(curr.conTime))
MaxConTime(prev, curr)   == IF JsGt(prev, curr.conTime) THEN prev ELSE curr.conTime
MinConTime(prev, curr)   == IF JsLt(prev, curr.conTime) THEN prev ELSE curr.conTime
CountMatches(prev, curr) == IF curr.match = Some(TRUE) THEN prev + 1 ELSE prev
CountErrors(prev, curr)  == IF IsDef(curr.err) THEN prev + 1 ELSE prev

\* lines 86-147: the report; avg and conAvg are kept as numerator/denominator
\* (a zero denominator is JavaScript's NaN); address and port are echoed
\* unchanged and left out.
Report(rs) ==
    LET dropped == Reduce(CountDropped, 0, rs, 1)
        base == [attempts |-> options.attempts,
                 dropped  |-> dropped,
                 avg      |-> [num |-> Reduce(SumTime, 0, rs, 1),
                               den |-> Len(rs) - dropped],
                 max      |-> Reduce(MaxTime, rs[1].time, rs, 1),
                 min      |-> Reduce(MinTime, rs[1].time, rs, 1),
                 results  |-> rs]
    IN  IF isProbe
        THEN [attempts |-> base.attempts, dropped |-> base.dropped,
              avg |-> base.avg, max |-> base.max, min |-> base.min,
              results |-> rs,
              matches |-> Reduce(CountMatches, 0, rs, 1),
              errors  |-> Reduce(CountErrors, 0, rs, 1),
              conAvg  |-> [num |-> Reduce(SumConTime, Some(0), rs, 1),
                           den |-> Len(rs) - dropped],
              conMax  |-> Reduce(MaxConTime, rs[1].conTime, rs, 1),
              conMin  |-> Reduce(MinConTime, rs[1].conTime, rs, 1)]
        ELSE base

\* lines 152-166, 203-209, 291, 312: connect() creates socket number S.i,
\* starts its clock and, in probe mode, its closure variables and the
\* response timer.
connect(S) ==
    LET k == S.i
        T == [S EXCEPT !.s[k] = NewSocket, !.clk[k] = 0]
    IN  IF isProbe
        THEN [T EXCEPT !.didPushResults[k] = FALSE,
                       !.connectTime[k] = undefined,
                       !.didMatch[k] = FALSE,
                       !.didExceedResponseBytes[k] = FALSE,
                       !.didRequestExit[k] = FALSE,
                       !.lastErr[k] = undefined,
                       !.responseBuffer[k] = undefined,
                       !.responseTimeoutRef[k] = "armed"]
        ELSE T

\* an off-by-one test of the attempts bound
MoreAttemptsInclusive(S) == S.i <= options.attempts

\* line 83
MoreAttempts(S) == S.i < options.attempts

\* lines 82-150
check(S) ==
    IF MoreAttempts(S)
    THEN connect(S)
    ELSE [S EXCEPT !.cb = Append(@, [err |-> undefined, report |-> Report(S.results)])]


\* ------------------------------------------------- connect(), probe mode
\* a probeResultCheck that lost its guard
NeverPushed(S, k) == FALSE

\* line 170: the guard of probeResultCheck
AlreadyPushed(S, k) == S.didPushResults[k]

\* a pushed object whose time does not depend on connectTime
PushedResultAlwaysTimed(S, k, result) ==
    [seq     |-> S.i,
     conTime |-> S.connectTime[k],
     time    |-> Some(S.clk[k]),
     match   |-> IF IsDef(options.match) THEN Some(S.didMatch[k]) ELSE undefined,
     err     |-> IF IsDef(result) THEN result ELSE S.lastErr[k],
     bytes   |-> IF IsDef(S.responseBuffer[k])
                 THEN Some(Len(Val(S.responseBuffer[k]))) ELSE undefined,
     data    |-> IF options.capture /\ IsDef(S.responseBuffer[k])
                 THEN S.responseBuffer[k] ELSE undefined]

\* lines 189-198: the pushed object; `result` is the err of the caller's
\* object ({} is undefined), spread last so that it wins over lastErr
PushedResult(S, k, result) ==
    [seq     |-> S.i,
     conTime |-> S.connectTime[k],
     time    |-> IF S.connectTime[k] = undefined THEN undefined ELSE Some(S.clk[k]),
     match   |-> IF IsDef(options.match) THEN Some(S.didMatch[k]) ELSE undefined,
     err     |-> IF IsDef(result) THEN result ELSE S.lastErr[k],
     bytes   |-> IF IsDef(S.responseBuffer[k])
                 THEN Some(Len(Val(S.responseBuffer[k]))) ELSE undefined,
     data    |-> IF options.capture /\ IsDef(S.responseBuffer[k])
                 THEN S.responseBuffer[k] ELSE undefined]

\* an exitRequest write that does not look at didRequestExit
RequestExitUnguarded(S, k) ==
    IF IsDef(options.exitRequest)
    THEN Write([S EXCEPT !.didRequestExit[k] = TRUE], k, "exitRequest")
    ELSE S

\* lines 175-182, 248-255, 262-269
RequestExit(S, k) ==
    IF IsDef(options.exitRequest) /\ ~S.didRequestExit[k]
    THEN Write([S EXCEPT !.didRequestExit[k] = TRUE], k, "exitRequest")
    ELSE S

\* lines 168-201
probeResultCheck(S, k, result) ==
    Then([S EXCEPT !.responseTimeoutRef[k] = IF @ = "armed" THEN "cleared" ELSE @],
         LAMBDA S0 :
    IF AlreadyPushed(S0, k) THEN S0
    ELSE
    Then(RequestExit([S0 EXCEPT !.didPushResults[k] = TRUE], k), LAMBDA S1 :
    Then([S1 EXCEPT !.s[k] = SockEnd(@)], LAMBDA S2 :
    Then([S2 EXCEPT !.results = Append(@, PushedResult(S2, k, result)),
                    !.i = @ + 1],
         check))))

\* line 209: the delay the response timer is armed with
ResponseDelay == options.timeout

\* a response timer that leaves the error to lastErr
onResponseTimeoutKeepsFirst(S, k) ==
    Then([S EXCEPT !.responseTimeoutRef[k] = "fired"], LAMBDA S0 :
    IF S0.didPushResults[k] THEN S0
    ELSE probeResultCheck(
             [S0 EXCEPT !.lastErr[k] = IF IsDef(@) THEN @ ELSE Some("Response timeout")],
             k, undefined))

\* lines 203-209: the response timer's callback
onResponseTimeout(S, k) ==
    Then([S EXCEPT !.responseTimeoutRef[k] = "fired"], LAMBDA S0 :
    IF S0.didPushResults[k] THEN S0
    ELSE probeResultCheck(
             [S0 EXCEPT !.lastErr[k] = IF IsDef(@) THEN @ ELSE Some("Response timeout")],
             k, Some("Response timeout")))

\* lines 211-219: onConnect
onConnect(S, k) ==
    Then(S, LAMBDA S0 :
    Then([S0 EXCEPT !.connectTime[k] = Some(S0.clk[k])], LAMBDA S1 :
    Then(Write(S1, k, "request"), LAMBDA S2 :
    [S2 EXCEPT !.responseBuffer[k] = Some(<<>>)])))

\* a buffer that takes every chunk whole
CapBufferUncapped(buf, data, max) ==
    [buf |-> buf \o data, exceeded |-> Len(buf) + Len(data) > max]

\* a buffer that drops the whole chunk that would overflow it
CapBufferDropsChunk(buf, data, max) ==
    IF Len(buf) + Len(data) <= max
    THEN [buf |-> buf \o data, exceeded |-> FALSE]
    ELSE [buf |-> buf, exceeded |-> TRUE]

\* lines 226-239: the buffer after a chunk, and whether the cap was exceeded
CapBuffer(buf, data, max) ==
    LET a == IF Len(buf) + Len(data) <= max
             THEN [buf |-> buf \o data, exceeded |-> FALSE]
             ELSE IF Len(buf) >= max /\ Len(data) > 0
             THEN [buf |-> buf, exceeded |-> TRUE]
             ELSE IF Len(data) > 0
             THEN [buf |-> buf \o SubSeq(data, 1, max - Len(buf)), exceeded |-> TRUE]
             ELSE [buf |-> buf, exceeded |-> FALSE]
    IN  IF Len(a.buf) > max
        THEN [buf |-> SubSeq(a.buf, 1, max), exceeded |-> TRUE]
        ELSE a

\* Buffer.includes: pat occurs in buf as a contiguous run of bytes
Includes(buf, pat) ==
    \E j \in 0 .. (Len(buf) - Len(pat)) : SubSeq(buf, j + 1, j + Len(pat)) = pat

\* lines 241-246, for a Buffer (or string) match
Matches(buf) == IsDef(options.match) /\ Includes(buf, Val(options.match))

\* lines 221-273: onData
\* lines 226-239 of onData
onDataBuffer(S, k, data) ==
    LET c == CapBuffer(Val(S.responseBuffer[k]), data, options.maxResponseBytes)
    IN  [S EXCEPT !.responseBuffer[k] = Some(c.buf),
                  !.didExceedResponseBytes[k] = @ \/ c.exceeded]

\* a match test that ends the socket without remembering the match
onDataMatchForgets(S, k) ==
    IF Matches(Val(S.responseBuffer[k]))
    THEN Then(RequestExit(S, k), LAMBDA M : [M EXCEPT !.s[k] = SockEnd(@)])
    ELSE S

\* lines 241-258 of onData
onDataMatch(S, k) ==
    IF Matches(Val(S.responseBuffer[k]))
    THEN Then(RequestExit([S EXCEPT !.didMatch[k] = TRUE], k), LAMBDA M :
         [M EXCEPT !.s[k] = SockEnd(@)])
    ELSE S

\* lines 260-271 of onData
onDataExceeded(S, k) ==
    IF S.didExceedResponseBytes[k]
    THEN Then(RequestExit(
                  [S EXCEPT !.lastErr[k] =
                      IF IsDef(@) THEN @ ELSE Some("Max Response Bytes Exceeded")],
                  k), LAMBDA E :
         [E EXCEPT !.s[k] = SockEnd(@)])
    ELSE S

onData(S, k, data) ==
    Then(S, LAMBDA S0 :
    IF S0.didPushResults[k] THEN S0
    ELSE
    Then(onDataBuffer(S0, k, data), LAMBDA S1 :
    Then(onDataMatch(S1, k), LAMBDA S2 :
    onDataExceeded(S2, k))))

\* lines 277-280: onError
onError(S, k, e) ==
    [S EXCEPT !.lastErr[k] = IF IsDef(@) THEN @ ELSE Some(e),
              !.s[k] = SockDestroy(@)]

\* lines 282-284: onFinish
onFinish(S, k) == [S EXCEPT !.s[k] = SockDestroy(@)]

\* lines 287-289: onClose
onClose(S, k) == probeResultCheck(S, k, undefined)

\* lines 291-293: the idle timeout's callback
onTimeout(S, k) == probeResultCheck(S, k, undefined)

\* ------------------------------------------------- connect(), plain mode
\* a result numbered after the increment of i
PlainResultNumberedLate(S, time, err) ==
    [seq |-> S.i + 1, conTime |-> undefined, time |-> time, match |-> undefined,
     err |-> err, bytes |-> undefined, data |-> undefined]

\* lines 301, 307, 313: the object a plain handler pushes
PlainResult(S, time, err) ==
    [seq |-> S.i, conTime |-> undefined, time |-> time, match |-> undefined,
     err |-> err, bytes |-> undefined, data |-> undefined]

\* a plain handler that leaves its socket open
PlainPushKeepsSocket(S, k, time, err) ==
    Then(S, LAMBDA S0 :
    Then([S0 EXCEPT !.results = Append(@, PlainResult(S0, time, err)),
                    !.i = @ + 1],
         check))

\* the four statements every plain handler ends with
PlainPush(S, k, time, err) ==
    Then(S, LAMBDA S0 :
    Then([S0 EXCEPT !.results = Append(@, PlainResult(S0, time, err)),
                    !.s[k] = SockDestroy(@),
                    !.i = @ + 1],
         check))

\* lines 298-305
plainOnConnect(S, k) == Then(S, LAMBDA S0 : PlainPush(S0, k, Some(S0.clk[k]), undefined))
\* an error handler that reports the error to the callback and stops
plainOnErrorAborts(S, k, e) ==
    [S EXCEPT !.s[k] = SockDestroy(@),
              !.cb = Append(@, [err |-> Some(e), report |-> undefined])]

\* lines 306-311
plainOnError(S, k, e) == PlainPush(S, k, undefined, Some(e))
\* lines 312-317
plainOnTimeout(S, k) == PlainPush(S, k, undefined, Some("Request timeout"))


\* ---------------------------------------------------------------- Init
\* What the caller passes.  Plain mode: attempts and timeout only.  Probe
\* mode: maxResponseBytes always (the default of 50000 bytes is out of the
\* model's reach), a request, and any of exitRequest, match (a Buffer) and
\* capture, for a single attempt; and two attempts with an exitRequest (a
\* second probe-mode attempt multiplies the states by some hundreds, a third
\* is out of reach).
OptAttempts == {undefined} \cup {Some(n) : n \in -1 .. MaxAttempts}
OptRespTimeout == {undefined, Some(RespTimeout)}

PlainGivens ==
    [attempts : OptAttempts, timeout : {Some(Timeout)},
     responseTimeout : {undefined},
     request : {undefined}, exitRequest : {undefined}, match : {undefined},
     maxResponseBytes : {undefined}, capture : {undefined}]

ProbeGivens ==
    [attempts : {undefined, Some(0), Some(1)}, timeout : {Some(Timeout)},
     responseTimeout : OptRespTimeout,
     request : {Some(<<1>>)},
     exitRequest : {undefined, Some(<<2>>)},
     match : {undefined, Some(<<1, 2>>)},
     maxResponseBytes : {Some(n) : n \in 1 .. MaxBytes},
     capture : {undefined, Some(TRUE)}]

ProbeSeqGivens ==
    [attempts : {Some(2)}, timeout : {Some(Timeout)},
     responseTimeout : {undefined},
     request : {Some(<<1>>)},
     exitRequest : {Some(<<2>>)},
     match : {undefined},
     maxResponseBytes : {Some(1)},
     capture : {undefined}]

Givens == PlainGivens \cup ProbeGivens \cup ProbeSeqGivens

\* lines 46-47 and the closure variables before any connect()
Blank ==
    [i |-> 0, results |-> <<>>, cb |-> <<>>,
     s |-> [k \in Ids |-> NoSocket], clk |-> [k \in Ids |-> 0],
     didPushResults |-> [k \in Ids |-> FALSE],
     connectTime |-> [k \in Ids |-> undefined],
     didMatch |-> [k \in Ids |-> FALSE],
     didExceedResponseBytes |-> [k \in Ids |-> FALSE],
     didRequestExit |-> [k \in Ids |-> FALSE],
     lastErr |-> [k \in Ids |-> undefined],
     responseBuffer |-> [k \in Ids |-> undefined],
     responseTimeoutRef |-> [k \in Ids |-> "none"],
     wrote |-> [k \in Ids |-> <<>>]]

Assign(S) ==
    /\ i = S.i /\ results = S.results /\ cb = S.cb /\ s = S.s /\ clk = S.clk
    /\ didPushResults = S.didPushResults /\ connectTime = S.connectTime
    /\ didMatch = S.didMatch
    /\ didExceedResponseBytes = S.didExceedResponseBytes
    /\ didRequestExit = S.didRequestExit /\ lastErr = S.lastErr
    /\ responseBuffer = S.responseBuffer
    /\ responseTimeoutRef = S.responseTimeoutRef /\ wrote = S.wrote

\* lines 339-341: the options ping() hands to probe()
PingOptions(given) ==
    [given EXCEPT !.attempts = IF IsDef(@) THEN @ ELSE Some(DefaultPingAttempts)]

\* a probe() that tests its callback after the first connect()
probeConnectsBeforeTest(callbackIsFunction) == connect(Blank)

\* a probe() that tests the attempts bound before the first connect()
probeChecksFirst(callbackIsFunction) ==
    IF callbackIsFunction /\ 0 < options.attempts THEN connect(Blank) ELSE Blank

\* lines 42-47 and 319: probe() throws, or makes the first connect()
probe(callbackIsFunction) ==
    IF callbackIsFunction THEN connect(Blank) ELSE Blank

\* lines 41-80, 319 and 339-341: probe(given, callback), or
\* ping(given, callback), up to the first connect().  The ten attempts of a
\* ping() without attempts are out of reach: such a call is made only
\* without a callback.
Init ==
    \E given \in Givens, callbackIsFunction \in BOOLEAN, viaPing \in BOOLEAN :
        /\ viaPing => (IsDef(given.attempts) \/ ~callbackIsFunction)
        /\ thrown = ~callbackIsFunction
        /\ isProbe = IsProbeOf(given)
        /\ options = MergeDefaults(IF viaPing THEN PingOptions(given) ELSE given)
        /\ Assign(probe(callbackIsFunction))

\* ------------------------------------------------------------- actions
\* 'connect' on a probe-mode socket
ProbeConnect(k) ==
    /\ isProbe /\ s[k].state = "connecting"
    /\ Becomes(onConnect([Cur EXCEPT !.s[k] = Established(@)], k))

\* 'data' on a probe-mode socket
ProbeData(k, data) ==
    /\ isProbe /\ s[k].state = "open" /\ ~s[k].rdEnded
    /\ Becomes(onData([Cur EXCEPT !.s[k].idle = 0, !.s[k].armed = options.timeout > 0],
                      k, data))

\* the peer's FIN: no handler of ping.js runs; node ends the writable side
PeerEnd(k) ==
    /\ isProbe /\ s[k].state = "open" /\ ~s[k].rdEnded
    /\ Becomes([Cur EXCEPT !.s[k].rdEnded = TRUE, !.s[k].ended = TRUE])

\* the error a socket in this state reports
ErrorOf(sk) ==
    CASE sk.state = "connecting" -> "ECONNREFUSED"
      [] sk.state = "open"       -> "ECONNRESET"
      [] OTHER                   -> "write after end"

\* 'error' on a probe-mode socket
ProbeError(k) ==
    /\ isProbe /\ s[k].state \in {"connecting", "open", "errored"}
    /\ Becomes(onError(Cur, k, ErrorOf(s[k])))

\* 'finish' on a probe-mode socket: the writable side was ended and flushed
ProbeFinish(k) ==
    /\ isProbe /\ s[k].state = "open" /\ s[k].ended
    /\ Becomes(onFinish(Cur, k))

\* 'close' on a probe-mode socket
ProbeClose(k) ==
    /\ isProbe /\ s[k].state = "destroyed"
    /\ Becomes(onClose([Cur EXCEPT !.s[k].state = "closed"], k))

IdleDue(sk) == Live(sk) /\ sk.armed /\ sk.idle >= options.timeout

\* 'timeout' on a probe-mode socket
ProbeTimeout(k) ==
    /\ isProbe /\ IdleDue(s[k])
    /\ Becomes(onTimeout([Cur EXCEPT !.s[k].armed = FALSE], k))

\* the response timer is due
ResponseDue(k) == responseTimeoutRef[k] = "armed" /\ clk[k] >= ResponseDelay

ResponseTimeout(k) ==
    /\ isProbe /\ ResponseDue(k)
    /\ Becomes(onResponseTimeout(Cur, k))

PlainConnect(k) ==
    /\ ~isProbe /\ s[k].state = "connecting"
    /\ Becomes(plainOnConnect([Cur EXCEPT !.s[k] = Established(@)], k))

PlainError(k) ==
    /\ ~isProbe /\ s[k].state = "connecting"
    /\ Becomes(plainOnError(Cur, k, ErrorOf(s[k])))

PlainTimeout(k) ==
    /\ ~isProbe /\ IdleDue(s[k])
    /\ Becomes(plainOnTimeout([Cur EXCEPT !.s[k].armed = FALSE], k))

\* the attempt of socket k has not pushed its result
Running(k) ==
    IF isProbe THEN s[k].state # "none" /\ ~didPushResults[k] ELSE Live(s[k])

\* one tick of time
Tick ==
    LET T == [Cur EXCEPT
                !.clk = [k \in Ids |-> IF Running(k) THEN Min(clk[k] + 1, MaxClock)
                                       ELSE clk[k]],
                !.s = [k \in Ids |-> IF Live(s[k]) /\ s[k].armed
                                     THEN [s[k] EXCEPT !.idle = Min(@ + 1, options.timeout)]
                                     ELSE s[k]]]
    IN  /\ ~thrown
        /\ T # Cur
        /\ Becomes(T)

Next ==
    \/ \E k \in Ids : ProbeConnect(k)
    \/ \E k \in Ids, data \in Chunks : ProbeData(k, data)
    \/ \E k \in Ids : PeerEnd(k)
    \/ \E k \in Ids : ProbeError(k)
    \/ \E k \in Ids : ProbeFinish(k)
    \/ \E k \in Ids : ProbeClose(k)
    \/ \E k \in Ids : ProbeTimeout(k)
    \/ \E k \in Ids : ResponseTimeout(k)
    \/ \E k \in Ids : PlainConnect(k)
    \/ \E k \in Ids : PlainError(k)
    \/ \E k \in Ids : PlainTimeout(k)
    \/ Tick

Spec == Init /\ [][Next]_vars


\* the timers of node fire once they are due
DueTimer == \E k \in Ids : ResponseTimeout(k) \/ PlainTimeout(k)

FairSpec == Spec /\ WF_vars(Tick) /\ WF_vars(DueTimer)

\* ---------------------------------------------------------------- claims
\* an event of probe-mode socket k, or its response timer, is delivered
Trigger(k) ==
    \/ ProbeConnect(k)
    \/ \E data \in Chunks : ProbeData(k, data)
    \/ PeerEnd(k)
    \/ ProbeError(k)
    \/ ProbeFinish(k)
    \/ ProbeClose(k)
    \/ ProbeTimeout(k)
    \/ ResponseTimeout(k)

\* C1: in probe mode an attempt is finalized by one step only, which appends
\* one result and adds one to i; a trigger delivered after that step, also
\* after the next attempt has started, changes neither results nor i; and
\* nothing but a finalizing step changes them.
C1_FinalizeExactlyOnce ==
    [][isProbe =>
        /\ \A k \in Ids :
            /\ didPushResults[k] => didPushResults'[k]
            /\ (didPushResults[k] /\ Trigger(k)) => (results' = results /\ i' = i)
            /\ (~didPushResults[k] /\ didPushResults'[k] /\ s[k].state # "none") =>
                 /\ Len(results') = Len(results) + 1
                 /\ SubSeq(results', 1, Len(results)) = results
                 /\ results'[Len(results')].seq = k
                 /\ i' = i + 1
        /\ (\A k \in Ids : s[k].state # "none" => didPushResults'[k] = didPushResults[k])
             => (results' = results /\ i' = i)
     ]_vars

\* attempt 0 was finalized by the response timer, attempt 1 has started and
\* the 'close' of socket 0 was delivered after that
C1_Witness ==
    /\ isProbe /\ options.attempts = 2
    /\ Len(results) = 1 /\ results[1].err = Some("Response timeout")
    /\ s[0].state = "closed" /\ s[1].state = "connecting" /\ i = 1

\* C2: with attempts >= 1, the report the callback gets holds attempts
\* results, and the result at position k has seq k.
C2_ReportHasAllResults ==
    \A c \in 1 .. Len(cb) :
        options.attempts >= 1 =>
            /\ IsDef(cb[c].report)
            /\ Len(cb[c].report.results) = options.attempts
            /\ \A j \in 1 .. Len(cb[c].report.results) :
                   cb[c].report.results[j].seq = j - 1

\* a two-attempt probe-mode report whose first attempt failed and whose
\* second did not
C2_Witness ==
    /\ isProbe /\ options.attempts = 2 /\ Len(cb) = 1
    /\ IsDef(cb[1].report.results[1].err)
    /\ cb[1].report.results[2].err = undefined

\* C3: with the timers firing once due, every attempt that was started is
\* finalized, and the callback is called.
C3_EveryAttemptFinalizes ==
    <>(\/ thrown
       \/ /\ cb # <<>>
          /\ \A k \in Ids : s[k].state # "none" => Len(results) > k)

\* the callback was called after an attempt that no event but its response
\* timer ended
C3_Witness ==
    /\ isProbe /\ Len(cb) = 1
    /\ results[1].err = Some("Response timeout")
    /\ s[0].state = "connecting" /\ ~s[0].connected

\* C4: the callback is called at most once, with an undefined error and a
\* report, and only when every attempt has pushed its result; an attempt
\* that failed is followed by the next one.
C4_CallbackOnceAfterAll ==
    /\ Len(cb) <= 1
    /\ \A c \in 1 .. Len(cb) :
        /\ cb[c].err = undefined
        /\ IsDef(cb[c].report)
        /\ i >= options.attempts
        /\ Len(results) >= options.attempts
    /\ \A j \in 1 .. Len(results) :
        (IsDef(results[j].err) /\ j < options.attempts) => s[j].state # "none"

\* a plain-mode report after a failed first attempt and a second attempt
C4_Witness ==
    /\ ~isProbe /\ options.attempts = 2 /\ Len(cb) = 1
    /\ IsDef(results[1].err) /\ Len(results) = 2

\* C5: the socket of attempt k+1 exists only when the result of attempt k
\* has been pushed, and the results are in the order of the attempts.
C5_AttemptsInSequence ==
    /\ \A k \in Ids :
        (k >= 1 /\ s[k].state # "none") =>
            /\ Len(results) >= k
            /\ isProbe => didPushResults[k - 1]
    /\ \A j \in 1 .. Len(results) : results[j].seq = j - 1
    /\ \A k \in Ids : (s[k].state # "none" /\ k >= 1) => s[k - 1].state # "none"

\* the second probe-mode socket is open and one result has been pushed
C5_Witness ==
    /\ isProbe /\ s[1].state = "open" /\ Len(results) = 1 /\ results[1].seq = 0


\* C6: at most one socket is open (connecting or connected) at any time,
\* and none is when the report is handed to the callback.
C6_OneSocketAtATime ==
    /\ Cardinality({k \in Ids : Live(s[k])}) <= 1
    /\ cb # <<>> => \A k \in Ids : ~Live(s[k])

\* C7: in probe mode the response buffer never holds more than
\* maxResponseBytes bytes, and neither do the bytes and data of a result.
C7_BufferWithinCap ==
    isProbe =>
        /\ \A k \in Ids :
            IsDef(responseBuffer[k]) =>
                Len(Val(responseBuffer[k])) <= options.maxResponseBytes
        /\ \A j \in 1 .. Len(results) :
            /\ IsDef(results[j].bytes) =>
                   Val(results[j].bytes) <= options.maxResponseBytes
            /\ IsDef(results[j].data) =>
                   Len(Val(results[j].data)) <= options.maxResponseBytes

\* a result of an attempt that received more than the largest cap
C7_Witness ==
    \E j \in 1 .. Len(results) :
        /\ options.maxResponseBytes = MaxBytes
        /\ results[j].bytes = Some(MaxBytes)
        /\ results[j].err = Some("Max Response Bytes Exceeded")

\* the connect of the attempt that pushed r has not completed
NeverConnected(r) == ~s[r.seq].connected

C9_EveryFaultHasError ==
    [][\A k \in Ids :
          LET r == results'[Len(results')]
          IN  Len(results') = Len(results) + 1 =>
                /\ (PlainError(k) \/ PlainTimeout(k)) => IsDef(r.err)
                /\ ResponseTimeout(k) => IsDef(r.err)
                /\ ProbeTimeout(k) => IsDef(r.err)
                /\ (/\ ProbeClose(k)
                    /\ \/ IsDef(lastErr[k])
                       \/ didExceedResponseBytes[k]
                       \/ ~s[k].connected) => IsDef(r.err)
     ]_vars

\* the delay C10 claims for the response timer
ClaimedResponseDelay ==
    IF IsDef(options.responseTimeout) THEN Val(options.responseTimeout)
    ELSE options.timeout

\* C10: in probe mode the response timer is armed from the creation of the
\* socket on, whether or not it connects, with a delay of responseTimeout
\* when the caller passed one and of timeout otherwise; a result with the
\* error 'Response timeout' is pushed only when that delay has elapsed.
C10_ResponseTimerDelay ==
    isProbe =>
        /\ \A k \in Ids :
            (s[k].state # "none" /\ ~didPushResults[k]) =>
                /\ responseTimeoutRef[k] = "armed"
                /\ ResponseDelay = ClaimedResponseDelay
        /\ \A k \in Ids : ResponseDue(k) <=>
               (responseTimeoutRef[k] = "armed" /\ clk[k] >= ClaimedResponseDelay)

\* the positions of the results whose time is defined
Timed(rs) == {j \in 1 .. Len(rs) : IsDef(rs[j].time)}

\* the sum of the defined times of the first n results
RECURSIVE SumOfTimes(_, _)
SumOfTimes(rs, n) ==
    IF n = 0 THEN 0
    ELSE SumOfTimes(rs, n - 1) + (IF IsDef(rs[n].time) THEN Val(rs[n].time) ELSE 0)

\* C11: in a report with at least one connected attempt, avg is the mean,
\* max the maximum and min the minimum of the defined times of the results,
\* wherever the dropped attempts are.
C11_AggregatesOverDefinedTimes ==
    \A c \in 1 .. Len(cb) :
        LET rep == cb[c].report
            rs  == rep.results
        IN  Timed(rs) # {} =>
              /\ rep.avg = [num |-> SumOfTimes(rs, Len(rs)), den |-> Cardinality(Timed(rs))]
              /\ IsDef(rep.max) /\ IsDef(rep.min)
              /\ \E j \in Timed(rs) : rs[j].time = rep.max
              /\ \E j \in Timed(rs) : rs[j].time = rep.min
              /\ \A j \in Timed(rs) :
                    Val(rep.min) <= Val(rs[j].time) /\ Val(rs[j].time) <= Val(rep.max)

\* C12: a step that pushes a result pushes one without a time exactly when
\* the connect of its attempt has not completed by then, and the dropped of
\* a report is the number of its results without a time.
C12_DroppedCountsUnconnected ==
    [][
        /\ Len(results') = Len(results) + 1 =>
              LET r == results'[Len(results')]
              IN  (r.time = undefined) <=> ~s'[r.seq].connected
        /\ Len(cb') = Len(cb) + 1 =>
              LET rep == cb'[Len(cb')].report
              IN  rep.dropped =
                    Cardinality({j \in 1 .. Len(rep.results) :
                                     rep.results[j].time = undefined})
    ]_vars

\* a probe-mode report of two attempts, one of them dropped
C12_Witness ==
    /\ isProbe /\ Len(cb) = 1 /\ Len(cb[1].report.results) = 2
    /\ cb[1].report.dropped = 1
    /\ \E j \in 1 .. 2 : IsDef(cb[1].report.results[j].time)

\* one of the three plain-mode handlers of socket k runs
PlainHandler(k) == PlainConnect(k) \/ PlainError(k) \/ PlainTimeout(k)

\* C13: in plain mode a handler of socket k runs only when attempt k has no
\* result yet; it appends one result, numbered k, adds one to i and leaves
\* the socket destroyed, so that no other handler of it runs; and nothing
\* but a handler changes results or i.
C13_PlainOneHandlerPerAttempt ==
    [][~isProbe =>
        /\ \A k \in Ids :
              PlainHandler(k) =>
                /\ \A j \in 1 .. Len(results) : results[j].seq # k
                /\ Len(results') = Len(results) + 1
                /\ SubSeq(results', 1, Len(results)) = results
                /\ results'[Len(results')].seq = k
                /\ i = k /\ i' = i + 1
                /\ ~Live(s'[k]) /\ ~s'[k].armed
        /\ (results' # results \/ i' # i) => \E k \in Ids : PlainHandler(k)
    ]_vars

\* a plain-mode run of two attempts: the first connected, the second timed out
C13_Witness ==
    /\ ~isProbe /\ Len(results) = 2 /\ i = 2
    /\ IsDef(results[1].time)
    /\ results[2].err = Some("Request timeout")
    /\ s[0].connected /\ ~Live(s[0]) /\ ~Live(s[1])

\* C14: when probe() or ping() is called without a callback function it
\* throws, and no socket exists, no timer is armed, no result is recorded
\* and the callback is not called.
C14_ThrowsBeforeAnything ==
    thrown =>
        /\ \A k \in Ids :
              /\ s[k] = NoSocket
              /\ responseTimeoutRef[k] = "none"
              /\ wrote[k] = <<>>
        /\ results = <<>> /\ i = 0 /\ cb = <<>>

\* ping() was called without attempts and without a callback
C14_Witness ==
    /\ thrown /\ options.attempts = DefaultPingAttempts
    /\ s[0].state = "none" /\ results = <<>>

\* C15: with match configured, every probe-mode result has a match field,
\* equal to didMatch of its attempt when it was finalized, whatever step
\* finalized it; didMatch never goes back to false, and it is true exactly
\* when the match test has succeeded on the buffer of the attempt.  Without
\* match configured there is no match field.
C15_MatchIsLastKnown ==
    [][isProbe =>
        /\ \A k \in Ids :
              /\ didMatch[k] => didMatch'[k]
              /\ s'[k].state # "none" =>
                    (didMatch'[k] <=> /\ IsDef(responseBuffer'[k])
                                      /\ Matches(Val(responseBuffer'[k])))
        /\ Len(results') = Len(results) + 1 =>
              LET r == results'[Len(results')]
              IN  r.match = IF IsDef(options.match) THEN Some(didMatch[r.seq])
                            ELSE undefined
        /\ \A j \in 1 .. Len(results') :
              results'[j].match =
                  IF IsDef(options.match) THEN Some(didMatch'[results'[j].seq])
                  ELSE undefined
    ]_vars

\* the match test succeeded and the response timer finalized the attempt
C15_Witness ==
    /\ isProbe /\ IsDef(options.match) /\ Len(results) = 1
    /\ results[1].match = Some(TRUE)
    /\ results[1].err = Some("Response timeout")

\* the number of s.write(options.exitRequest) calls made on socket k
ExitWrites(k) ==
    Cardinality({n \in 1 .. Len(wrote[k]) : wrote[k][n].what = "exitRequest"})

\* C16: in probe mode s.write(options.exitRequest) is called at most once
\* on the socket of an attempt, whichever of the match path, the
\* exceeded-bytes path and probeResultCheck comes first, and it has been
\* called once when the result of the attempt is recorded; without an
\* exitRequest it is never called.  (The call is an attempt: on a socket
\* that is ended or destroyed nothing is sent.)
C16_ExitRequestOnce ==
    isProbe =>
        /\ \A k \in Ids :
              /\ ExitWrites(k) <= 1
              /\ ExitWrites(k) = 1 <=> didRequestExit[k]
              /\ ~IsDef(options.exitRequest) => ExitWrites(k) = 0
              /\ (IsDef(options.exitRequest) /\ didPushResults[k]) => ExitWrites(k) = 1
        /\ \A j \in 1 .. Len(results) :
              IsDef(options.exitRequest) => ExitWrites(results[j].seq) = 1

\* the exitRequest was written on the match path, and the attempt was
\* finalized afterwards
C16_Witness ==
    /\ isProbe /\ IsDef(options.exitRequest) /\ Len(results) = 1
    /\ results[1].match = Some(TRUE)
    /\ wrote[0] = <<[what |-> "request", ok |-> TRUE],
                    [what |-> "exitRequest", ok |-> TRUE]>>
    /\ s[0].state = "closed"

\* C17: a chunk delivered to a running attempt that fits in the buffer, also
\* one that fills it to exactly maxResponseBytes, is appended whole and
\* leaves didExceedResponseBytes as it was; a chunk that would overflow is cut
\* so that the buffer holds the first maxResponseBytes bytes received, and
\* sets didExceedResponseBytes; and whenever didExceedResponseBytes is set
\* the buffer holds exactly maxResponseBytes bytes.
C17_CapTruncatesChunk ==
    [][isProbe =>
        \A k \in Ids :
          /\ \A data \in Chunks :
                (/\ s[k].state = "open" /\ ~didPushResults[k]
                 /\ results' = results /\ clk' = clk
                 /\ ProbeData(k, data)) =>
                  LET buf == Val(responseBuffer[k])
                      new == Val(responseBuffer'[k])
                      max == options.maxResponseBytes
                  IN  IF Len(buf) + Len(data) <= max
                      THEN /\ new = buf \o data
                           /\ didExceedResponseBytes'[k] = didExceedResponseBytes[k]
                      ELSE /\ new = SubSeq(buf \o data, 1, max)
                           /\ didExceedResponseBytes'[k]
          /\ didExceedResponseBytes'[k] =>
                Len(Val(responseBuffer'[k])) = options.maxResponseBytes
    ]_vars

\* the largest cap was exceeded while the attempt is running
C17_Witness ==
    /\ isProbe /\ options.maxResponseBytes = MaxBytes
    /\ didExceedResponseBytes[0] /\ ~didPushResults[0]
    /\ Len(Val(responseBuffer[0])) = MaxBytes

\* C18: the err of the result a probe-mode step pushes for attempt k is
\* 'Response timeout' when the step is the response timer's, whatever
\* lastErr holds; otherwise 'Max Response Bytes Exceeded' when
\* didExceedResponseBytes is set; otherwise lastErr, the first fault that
\* was stored, which no later fault replaces; and absent when no fault was
\* stored, as on a close without a fault.
C18_ErrorPrecedence ==
    [][isProbe =>
        /\ \A k \in Ids : IsDef(lastErr[k]) => lastErr'[k] = lastErr[k]
        /\ Len(results') = Len(results) + 1 =>
              LET r == results'[Len(results')]
                  k == r.seq
              IN  IF ResponseTimeout(k)
                  THEN r.err = Some("Response timeout")
                  ELSE /\ didExceedResponseBytes[k] =>
                            r.err = Some("Max Response Bytes Exceeded")
                       /\ r.err = lastErr[k]
                       /\ (ProbeClose(k) /\ lastErr[k] = undefined) =>
                            r.err = undefined
    ]_vars

\* the cap was exceeded and the response timer finalized the attempt
C18_Witness ==
    /\ isProbe /\ Len(results) = 1
    /\ lastErr[0] = Some("Max Response Bytes Exceeded")
    /\ results[1].err = Some("Response timeout")

\* the number of s.write(options.request) calls made on socket k
RequestWrites(k) ==
    Cardinality({n \in 1 .. Len(wrote[k]) : wrote[k][n].what = "request"})

\* C19: s.write(options.request) is called at most once on the socket of an
\* attempt, and not once the attempt is finalized: a 'connect' delivered
\* after the response timer or the idle timeout finalized a connecting
\* attempt writes nothing and does not set up the buffer and the data
\* handler.
C19_NoRequestAfterFinalize ==
    [][isProbe =>
        \A k \in Ids :
          /\ RequestWrites(k) <= 1
          /\ didPushResults[k] =>
                /\ wrote'[k] = wrote[k]
                /\ responseBuffer'[k] = responseBuffer[k]
    ]_vars

\* C20: unless probe() threw, the first socket is created whatever attempts
\* is; every report holds at least one result; and with attempts <= 0
\* exactly one attempt is made and the report holds exactly one result.
C20_FirstAttemptUnconditional ==
    /\ ~thrown => s[0].state # "none"
    /\ \A c \in 1 .. Len(cb) :
          /\ Len(cb[c].report.results) >= 1
          /\ cb[c].report.results[1].seq = 0
    /\ options.attempts <= 0 =>
          /\ \A k \in Ids : k >= 1 => s[k].state = "none"
          /\ Len(results) <= 1
          /\ \A c \in 1 .. Len(cb) : Len(cb[c].report.results) = 1

\* a probe-mode call with attempts: 0 has reported its one result
C20_Witness ==
    /\ isProbe /\ options.attempts = 0 /\ Len(cb) = 1
    /\ cb[1].report.attempts = 0
    /\ Len(cb[1].report.results) = 1

====
